---- MODULE Spec2Model ----
(***************************************************************************)
(* Model of the response processor of rippled_monitor:                     *)
(*   src/process_responses/process_output.py            (ResponseProcessor)*)
(*   src/process_responses/process_validation_output.py (validation stream)*)
(*                                                                         *)
(* Python dicts are functions whose DOMAIN is the set of keys they hold;   *)
(* Python lists are sequences; Python's None is the value None.            *)
(***************************************************************************)
EXTENDS Integers, Sequences, FiniteSets, TLC

VARIABLES
    settings,               \* the configuration object handed to __init__
    roster,                 \* the table_validator argument of process_messages
    table_validator,        \* self.table_validator: list of validator dicts
    val_keys,               \* self.val_keys: list of tracked keys
    processed_validations,  \* self.processed_validations: list of signatures
    message_queue,          \* self.message_queue (inbound asyncio queue)
    notification_queue,     \* self.notification_queue (outbound asyncio queue)
    ll_modes,               \* self.ll_modes
    time_last_output,       \* self.time_last_output
    time_fork_check,        \* self.time_fork_check
    last_heartbeat,         \* self.last_heartbeat
    message,                \* the local `message` of process_messages
    pc,                     \* position of process_messages inside its loop
    outcome,                \* how the last executed statement of the loop ended
    now,                    \* the wall clock read by time.time()
    n_put,                  \* number of messages put on message_queue so far
    n_dispatched,           \* number of messages handed to sort_new_messages
    applied                 \* signatures process_validations has appended so far

vars == <<settings, roster, table_validator, val_keys, processed_validations,
          message_queue, notification_queue, ll_modes, time_last_output,
          time_fork_check, last_heartbeat, message, pc, outcome, now,
          n_put, n_dispatched, applied>>

----------------------------------------------------------------------------
(* Bounds of the model.                                                    *)

MaxRoster == 2      \* validator records in the startup roster
MaxCeiling == 2     \* PROCESSED_VAL_MAX ranges over 0..MaxCeiling
MaxMessages == 3    \* messages the producers put on the inbound queue
MaxQueue == 1       \* messages waiting in the inbound queue at once
MaxTicks == 2       \* seconds the clock advances after construction
NumSignatures == 2  \* distinct validation signatures on the wire

----------------------------------------------------------------------------
(* Values.                                                                 *)

None == "None"

MasterKeys == {"M1", "M2"}
EphKeys == {"E1"}
SignatureNames == <<"S1", "S2", "S3", "S4", "S5", "S6">>
Signatures == {SignatureNames[i] : i \in 1..NumSignatures}

\* list(...) contents as a set, and Python's `x in list`
Elems(list) == {list[i] : i \in 1..Len(list)}
In(x, list) == x \in Elems(list)

\* dict.get(key): the value, or None when the key is missing
Get(dict, key) == IF key \in DOMAIN dict THEN dict[key] ELSE None

\* Python truthiness of a key value: None and "" are false
Truthy(v) == v # None /\ v # ""

----------------------------------------------------------------------------
(* process_validation_output.py                                            *)

\* del_dup_validators: the loop over the table, from record i on, with the
\* val_keys and table_new lists built so far
RECURSIVE DelDupLoop(_, _, _, _)
DelDupLoop(table, i, keys, table_new) ==
    IF i > Len(table) THEN <<keys, table_new>>
    ELSE LET master_key == Get(table[i], "master_key") IN
         IF ~In(master_key, keys)
         THEN DelDupLoop(table, i + 1, Append(keys, master_key),
                         Append(table_new, table[i]))
         ELSE DelDupLoop(table, i + 1, keys, table_new)

Reverse(list) == [i \in 1..Len(list) |-> list[Len(list) + 1 - i]]

\* del_dup_validators keeping the last record of each master_key, not the
\* first
del_dup_validators_keep_last(table) ==
    LET dd == DelDupLoop(Reverse(table), 1, <<>>, <<>>)
    IN  <<Reverse(dd[1]), Reverse(dd[2])>>

\* del_dup_validators(table) -> (val_keys, table_new)
del_dup_validators(table) == DelDupLoop(table, 1, <<>>, <<>>)

\* A prune that deletes as many entries as the ceiling, not half of it
IntHalf_whole(x) == x

\* int(x / 2): true division, then truncation toward zero
IntHalf(x) == IF x >= 0 THEN x \div 2 ELSE -((-x) \div 2)

\* A deletion of the n newest entries, not the n oldest
DelPrefix_newest(list, n) ==
    IF n >= Len(list) THEN <<>> ELSE SubSeq(list, 1, Len(list) - n)

\* del list[0:n] for n >= 0
DelPrefix(list, n) ==
    IF n >= Len(list) THEN <<>> ELSE SubSeq(list, n + 1, Len(list))

\* clean_validations(settings, val_keys, table, processed_validations)
\*   -> (val_keys, table, processed_validations)
clean_validations(cfg, keys, table, processed) ==
    IF Len(processed) >= cfg.PROCESSED_VAL_MAX
    THEN LET half_list == IntHalf(cfg.PROCESSED_VAL_MAX)
             pruned == DelPrefix(processed, half_list)
         IN  IF cfg.REMOVE_DUP_VALIDATORS
             THEN LET dd == del_dup_validators(table)
                  IN  <<dd[1], dd[2], pruned>>
             ELSE <<keys, table, pruned>>
    ELSE <<keys, table, processed>>

\* The condition of update_table_validator's if statement, for the message's
\* data and one validator dict
ValidatorMatches(data, validator) ==
    \/ /\ Truthy(Get(data, "master_key"))
       /\ Get(data, "master_key") = validator["master_key"]
    \/ Get(data, "validation_public_key") = validator["validation_public_key"]

\* The merge as validator.update(message) would do it: the message's other
\* keys are added to the validator dict
MergeValidator_dict_update(data, validator, t) ==
    [key \in DOMAIN validator \cup DOMAIN data |->
        IF key = "time_updated" THEN t
        ELSE IF key \in DOMAIN data THEN data[key]
        ELSE validator[key]]

\* The body of that if statement: every key of the validator that the message
\* holds is overwritten, then time_updated is stamped (strftime of the clock,
\* at a resolution of one second: the model's clock counts seconds)
MergeValidator(data, validator, t) ==
    [key \in DOMAIN validator |->
        IF key = "time_updated" THEN t
        ELSE IF key \in DOMAIN data THEN data[key]
        ELSE validator[key]]

\* update_table_validator(table, message) -> table, at clock t
update_table_validator(table, msg, t) ==
    [i \in 1..Len(table) |->
        IF ValidatorMatches(msg["data"], table[i])
        THEN MergeValidator(msg["data"], table[i], t)
        ELSE table[i]]

\* What a handler hands back: the exception it raised ("ok" when none), the
\* three lists as they are when it ends, and the signatures it appended
Outcome(exc, keys, table, processed, appended) ==
    [exc |-> exc, val_keys |-> keys, table_validator |-> table,
     processed_validations |-> processed, appended |-> appended]

\* A handler that ends without having touched the lists
Result(exc, keys, table, processed) ==
    Outcome(exc, keys, table, processed, <<>>)

\* process_validations reading message['server_url'] only after the table
\* has been updated in place
process_validations_late_check(cfg, keys, table, processed, msg, t) ==
    LET updated == update_table_validator(table, msg, t)
        appended == Append(processed, msg["data"]["signature"])
        cleaned == clean_validations(cfg, keys, updated, appended)
    IN  IF "server_url" \notin DOMAIN msg
        THEN Result("KeyError", keys, updated, processed)
        ELSE Outcome("ok", cleaned[1], cleaned[2], cleaned[3],
                     <<msg["data"]["signature"]>>)

\* process_validations(settings, val_keys, table_validator,
\*                     processed_validations, message)
process_validations(cfg, keys, table, processed, msg, t) ==
    IF "server_url" \notin DOMAIN msg
    THEN Result("KeyError", keys, table, processed)
    ELSE LET updated == update_table_validator(table, msg, t)
             appended == Append(processed, msg["data"]["signature"])
             cleaned == clean_validations(cfg, keys, updated, appended)
         IN  Outcome("ok", cleaned[1], cleaned[2], cleaned[3],
                     <<msg["data"]["signature"]>>)

\* The scope filter of check_validations (`and` binds tighter than `or`)
InScope(keys, data) ==
    \/ In(Get(data, "master_key"), keys)
    \/ /\ In(Get(data, "validation_public_key"), keys)
       /\ Truthy(Get(data, "validation_public_key"))

\* check_validations without the look-up in processed_validations
check_validations_no_dedup(cfg, keys, table, processed, msg, t) ==
    IF InScope(keys, msg["data"])
    THEN IF "signature" \notin DOMAIN msg["data"]
         THEN Result("KeyError", keys, table, processed)
         ELSE process_validations(cfg, keys, table, processed, msg, t)
    ELSE IF "server_url" \notin DOMAIN msg
         THEN Result("KeyError", keys, table, processed)
         ELSE Result("ok", keys, table, processed)

\* check_validations(settings, val_keys, table_validator,
\*                   processed_validations, message)
check_validations(cfg, keys, table, processed, msg, t) ==
    IF InScope(keys, msg["data"])
    THEN IF "signature" \notin DOMAIN msg["data"]
         THEN Result("KeyError", keys, table, processed)
         ELSE IF ~In(msg["data"]["signature"], processed)
         THEN process_validations(cfg, keys, table, processed, msg, t)
         ELSE Result("ok", keys, table, processed)
    ELSE IF "server_url" \notin DOMAIN msg
         THEN Result("KeyError", keys, table, processed)
         ELSE Result("ok", keys, table, processed)

----------------------------------------------------------------------------
(* process_output.py: ResponseProcessor                                    *)

\* The clock at construction (seconds since the epoch: far more than any
\* configured interval) and the configured intervals, in seconds
StartTime == 10
FORK_CHECK_FREQ == 1
CONSOLE_REFRESH_TIME == 1
HEARTBEAT_INTERVAL == 2
ADMIN_NOTIFICATIONS == <<"admin1", "admin2">>

\* What an external collaborator (process_stock_output.update_table_server,
\* update_table_ledger) can end with; it touches table_stock only
ExternalOutcomes == {"ok", "KeyError", "Exception"}

\* What check_forked.fork_checker can return as the network's ledger modes
LLModes == {<<>>, <<"mode">>}

\* A filter over a list, keeping the order (the loop of generate_val_keys)
RECURSIVE KeepTruthy(_)
KeepTruthy(list) ==
    IF list = <<>> THEN <<>>
    ELSE IF Truthy(Head(list)) THEN <<Head(list)>> \o KeepTruthy(Tail(list))
    ELSE KeepTruthy(Tail(list))

\* generate_val_keys: what is appended to self.val_keys
generate_val_keys(table) ==
    KeepTruthy([i \in 1..Len(table) |-> Get(table[i], "master_key")]
               \o [i \in 1..Len(table) |->
                      Get(table[i], "validation_public_key")])

\* sort_new_messages(message); ext is how the external handler ends when the
\* message is a server or a ledger message
sort_new_messages(cfg, keys, table, processed, msg, t, ext) ==
    IF "data" \notin DOMAIN msg
    THEN Result("KeyError", keys, table, processed)
    ELSE IF "result" \in DOMAIN msg["data"]
    THEN Result(ext, keys, table, processed)
    ELSE IF "type" \notin DOMAIN msg["data"]
    THEN Result("KeyError", keys, table, processed)
    ELSE IF msg["data"]["type"] = "ledgerClosed"
    THEN Result(ext, keys, table, processed)
    ELSE IF msg["data"]["type"] = "validationReceived"
    THEN check_validations(cfg, keys, table, processed, msg, t)
    ELSE Result("ok", keys, table, processed)

----------------------------------------------------------------------------
(* Inputs: rosters and inbound messages.                                   *)

Absent == "Absent"

\* The dict holding exactly the keys whose value is not Absent
Dict(full) == [k \in {x \in DOMAIN full : full[x] # Absent} |-> full[k]]

\* A validator dict of the roster. The source's dicts hold eleven keys
\* (print_table_validation reads them all); the model keeps the two keys, one
\* of the seven observed fields, which all behave alike, and time_updated
ValidatorRecord(mk, vpk) ==
    [master_key |-> mk, validation_public_key |-> vpk,
     ledger_index |-> "L100", time_updated |-> 0]

ValidatorRecords ==
    {ValidatorRecord(mk, vpk) :
        mk \in MasterKeys \cup {None}, vpk \in EphKeys \cup {None}}

RECURSIVE Lists(_, _)
Lists(S, n) ==
    IF n = 0 THEN {<<>>}
    ELSE LET shorter == Lists(S, n - 1)
         IN  shorter \cup {Append(l, x) : l \in {y \in shorter : Len(y) = n - 1},
                                             x \in S}

Rosters == Lists(ValidatorRecords, MaxRoster)

Data(mk, vpk, sig, li, ty, res) ==
    Dict([master_key |-> mk, validation_public_key |-> vpk, signature |-> sig,
          ledger_index |-> li, type |-> ty, result |-> res])

Message(url, data) ==
    IF url = Absent THEN [data |-> data]
    ELSE [server_url |-> url, data |-> data]

ValidationMessages ==
    {Message(url, Data(mk, vpk, sig, "L101", "validationReceived", Absent)) :
        url \in {"url", Absent},
        mk \in MasterKeys \cup {Absent},
        vpk \in EphKeys \cup {Absent},
        sig \in Signatures \cup {Absent}}

\* Server responses, ledger messages, messages of another type or of none,
\* and a message without data
OtherMessages ==
    {Message("url", Data(Absent, Absent, Absent, Absent, ty, res)) :
        ty \in {"ledgerClosed", "serverStatus", Absent},
        res \in {"result", Absent}}
    \cup {[server_url |-> "url"]}

Messages == ValidationMessages \cup OtherMessages

Settings ==
    [PROCESSED_VAL_MAX : 0..MaxCeiling, REMOVE_DUP_VALIDATORS : BOOLEAN,
     ADMIN_HEARTBEAT : {TRUE}, CONSOLE_OUT : {TRUE}]

----------------------------------------------------------------------------
(* The state machine.                                                      *)

\* The local `message` while it is unbound or dead: before the first get(),
\* and from the end of sort_new_messages (only the except clauses' log lines
\* read it after that) to the next get()
NoMessage == [unbound |-> TRUE]

\* The state after __init__
Init ==
    /\ settings \in Settings
    /\ roster \in Rosters
    /\ table_validator = <<>>
    /\ val_keys = <<>>
    /\ processed_validations = <<>>
    /\ message_queue = <<>>
    /\ notification_queue = <<>>
    /\ ll_modes = <<>>
    /\ time_last_output = 0
    /\ time_fork_check = 0
    /\ last_heartbeat = StartTime
    /\ message = NoMessage
    /\ pc = "start"
    /\ outcome = "none"
    /\ now = StartTime
    /\ n_put = 0
    /\ n_dispatched = 0
    /\ applied = {}

\* process_messages, up to the loop: the roster becomes the table and the
\* key list is generated
Startup ==
    /\ pc = "start"
    /\ table_validator' = roster
    /\ val_keys' = val_keys \o generate_val_keys(roster)
    /\ pc' = "get"
    /\ UNCHANGED <<settings, roster, processed_validations, message_queue,
                   notification_queue, ll_modes, time_last_output,
                   time_fork_check, last_heartbeat, message, outcome, now,
                   n_put, n_dispatched, applied>>

\* A producer puts a message on the inbound queue. The processor and the
\* producers are tasks of one event loop: a producer runs only while the
\* processor is suspended, and it is suspended only in message_queue.get()
PutFrom(messages, capacity) ==
    /\ pc \in {"start", "get"}
    /\ n_put < MaxMessages
    /\ Len(message_queue) < capacity
    /\ \E msg \in messages : message_queue' = Append(message_queue, msg)
    /\ n_put' = n_put + 1
    /\ UNCHANGED <<settings, roster, table_validator, val_keys, processed_validations,
                   notification_queue, ll_modes, time_last_output,
                   time_fork_check, last_heartbeat, message, pc, outcome, now,
                   n_dispatched, applied>>

Put == PutFrom(Messages, MaxQueue)

\* The clock advances by a second, up to the limit
TickUntil(limit) ==
    /\ now < limit
    /\ now' = now + 1
    /\ UNCHANGED <<settings, roster, table_validator, val_keys, processed_validations,
                   message_queue, notification_queue, ll_modes,
                   time_last_output, time_fork_check, last_heartbeat, message,
                   pc, outcome, n_put, n_dispatched, applied>>

Tick == TickUntil(StartTime + MaxTicks)

\* message = await self.message_queue.get()
LoopGet ==
    /\ pc = "get"
    /\ message_queue # <<>>
    /\ message' = Head(message_queue)
    /\ message_queue' = Tail(message_queue)
    /\ pc' = "sort"
    /\ UNCHANGED <<settings, roster, outcome, table_validator, val_keys, processed_validations,
                   notification_queue, ll_modes, time_last_output,
                   time_fork_check, last_heartbeat, now, n_put, n_dispatched, applied>>

\* A loop that an exception ends: no except clause but the one that breaks
AfterStatement_break(exc, next) == IF exc = "ok" THEN next ELSE "stopped"

\* Where the loop goes after a statement that ended with exc: on, or (the
\* except clauses that log) back to the top
AfterStatement(exc, next) == IF exc = "ok" THEN next ELSE "get"

\* await self.sort_new_messages(message)
LoopSort ==
    /\ pc = "sort"
    /\ \E ext \in ExternalOutcomes :
          LET r == sort_new_messages(settings, val_keys, table_validator,
                                     processed_validations, message, now, ext)
          IN  /\ val_keys' = r.val_keys
              /\ table_validator' = r.table_validator
              /\ processed_validations' = r.processed_validations
              /\ outcome' = r.exc
              /\ pc' = AfterStatement(r.exc, "forks")
              /\ applied' = applied \cup Elems(r.appended)
    /\ message' = NoMessage
    /\ n_dispatched' = n_dispatched + 1
    /\ UNCHANGED <<settings, roster, message_queue, notification_queue, ll_modes,
                   time_last_output, time_fork_check, last_heartbeat, now,
                   n_put>>

\* await self.evaluate_forks()
LoopForks ==
    /\ pc = "forks"
    /\ IF now - time_fork_check > FORK_CHECK_FREQ
       THEN /\ ll_modes' \in LLModes
            /\ time_fork_check' = now
       ELSE UNCHANGED <<ll_modes, time_fork_check>>
    /\ pc' = "console"
    /\ outcome' = "ok"
    /\ UNCHANGED <<settings, roster, table_validator, val_keys, processed_validations,
                   message_queue, notification_queue, time_last_output,
                   last_heartbeat, message, now, n_put, n_dispatched, applied>>

\* await self.process_console_output()
LoopConsole ==
    /\ pc = "console"
    /\ IF settings.CONSOLE_OUT
          /\ now - time_last_output >= CONSOLE_REFRESH_TIME
       THEN time_last_output' = now
       ELSE UNCHANGED time_last_output
    /\ pc' = "heartbeat"
    /\ outcome' = "ok"
    /\ UNCHANGED <<settings, roster, table_validator, val_keys, processed_validations,
                   message_queue, notification_queue, ll_modes,
                   time_fork_check, last_heartbeat, message, now, n_put,
                   n_dispatched, applied>>

\* The notifications one heartbeat puts on the outbound queue
HeartbeatNotifications(t, modes) ==
    [i \in 1..Len(ADMIN_NOTIFICATIONS) |->
        [message |-> <<modes[1], t>>, server |-> ADMIN_NOTIFICATIONS[i]]]

\* await self.heartbeat_message()
LoopHeartbeat ==
    /\ pc = "heartbeat"
    /\ IF settings.ADMIN_HEARTBEAT
          /\ now - last_heartbeat >= HEARTBEAT_INTERVAL
       THEN IF ll_modes = <<>>
            THEN \* self.ll_modes[0] raises IndexError
                 /\ outcome' = "Exception"
                 /\ UNCHANGED <<notification_queue, last_heartbeat>>
            ELSE /\ notification_queue' =
                        notification_queue \o HeartbeatNotifications(now, ll_modes)
                 /\ last_heartbeat' = now
                 /\ outcome' = "ok"
       ELSE /\ outcome' = "ok"
            /\ UNCHANGED <<notification_queue, last_heartbeat>>
    /\ pc' = AfterStatement(outcome', "get")
    /\ UNCHANGED <<settings, roster, table_validator, val_keys, processed_validations,
                   message_queue, ll_modes, time_last_output, time_fork_check,
                   message, now, n_put, n_dispatched, applied>>

\* A cancellation handled like the other exceptions: logged, then the loop
\* goes back to the top
Cancel_retry ==
    /\ pc \notin {"start", "stopped"}
    /\ pc' = "get"
    /\ outcome' = "Cancelled"
    /\ message' = NoMessage
    /\ UNCHANGED <<settings, roster, table_validator, val_keys, processed_validations,
                   message_queue, notification_queue, ll_modes,
                   time_last_output, time_fork_check, last_heartbeat, now,
                   n_put, n_dispatched, applied>>

\* asyncio.CancelledError or KeyboardInterrupt reaches the loop: break
Cancel ==
    /\ pc \notin {"start", "stopped"}
    /\ pc' = "stopped"
    /\ outcome' = "Cancelled"
    /\ message' = NoMessage
    /\ UNCHANGED <<settings, roster, table_validator, val_keys, processed_validations,
                   message_queue, notification_queue, ll_modes,
                   time_last_output, time_fork_check, last_heartbeat, now,
                   n_put, n_dispatched, applied>>

Next ==
    \/ Startup
    \/ Put
    \/ LoopGet
    \/ LoopSort
    \/ LoopForks
    \/ LoopConsole
    \/ LoopHeartbeat
    \/ Cancel

Spec == Init /\ [][Next]_vars

----------------------------------------------------------------------------
(* del_dup_validators on its own: any table in, one call.                  *)

MaxTable == 3       \* records of a table handed to del_dup_validators

\* A validator dict of such a table; its master_key may be missing
DedupRecord(mk, vpk, li) ==
    Dict([master_key |-> mk, validation_public_key |-> vpk,
          ledger_index |-> li])

DedupRecords ==
    {DedupRecord(mk, vpk, li) :
        mk \in MasterKeys \cup {None, Absent},
        vpk \in EphKeys \cup {None},
        li \in {"L100", "L101"}}

InitDedup ==
    /\ settings \in {cfg \in Settings : cfg.REMOVE_DUP_VALIDATORS
                                        /\ cfg.PROCESSED_VAL_MAX = 0}
    /\ roster \in Lists(DedupRecords, MaxTable)
    /\ table_validator = roster
    /\ val_keys = <<>>
    /\ processed_validations = <<>>
    /\ message_queue = <<>>
    /\ notification_queue = <<>>
    /\ ll_modes = <<>>
    /\ time_last_output = 0
    /\ time_fork_check = 0
    /\ last_heartbeat = StartTime
    /\ message = NoMessage
    /\ pc = "dedup"
    /\ outcome = "none"
    /\ now = StartTime
    /\ n_put = 0
    /\ n_dispatched = 0
    /\ applied = {}

\* val_keys, table = await del_dup_validators(table)
DedupPass ==
    /\ pc = "dedup"
    /\ LET dd == del_dup_validators(table_validator)
       IN  /\ val_keys' = dd[1]
           /\ table_validator' = dd[2]
    /\ pc' = "deduped"
    /\ UNCHANGED <<settings, roster, processed_validations, message_queue,
                   notification_queue, ll_modes, time_last_output,
                   time_fork_check, last_heartbeat, message, outcome, now,
                   n_put, n_dispatched, applied>>

NextDedup == DedupPass

SpecDedup == InitDedup /\ [][NextDedup]_vars

\* The records of the list at the positions in S, in the list's order
RECURSIVE PickFrom(_, _, _)
PickFrom(list, S, i) ==
    IF i > Len(list) THEN <<>>
    ELSE (IF i \in S THEN <<list[i]>> ELSE <<>>) \o PickFrom(list, S, i + 1)

\* The positions of the list whose dict holds master_key mk
PositionsOf(list, mk) == {i \in 1..Len(list) : Get(list[i], "master_key") = mk}

Min(S) == CHOOSE x \in S : \A y \in S : x <= y

\* C6: when two or more records of the table handed in share a present
\* master_key, the table returned holds exactly one record with that key, the
\* first of the input; the kept records are in the input's order; the key
\* list returned holds that key exactly once.
C6_DuplicateRemoval ==
    pc = "deduped" =>
        \A mk \in MasterKeys :
            Cardinality(PositionsOf(roster, mk)) >= 2 =>
                /\ Cardinality(PositionsOf(table_validator, mk)) = 1
                /\ \A j \in PositionsOf(table_validator, mk) :
                       table_validator[j] = roster[Min(PositionsOf(roster, mk))]
                /\ Cardinality({j \in 1..Len(val_keys) : val_keys[j] = mk}) = 1
                /\ \E S \in SUBSET (1..Len(roster)) :
                       table_validator = PickFrom(roster, S, 1)

\* C6's case: of three records the first and the third share M1 and differ
\* otherwise; the pass has returned the first and the second.
C6_Witness ==
    /\ pc = "deduped"
    /\ Len(roster) = 3
    /\ Get(roster[1], "master_key") = "M1"
    /\ Get(roster[2], "master_key") = "M2"
    /\ Get(roster[3], "master_key") = "M1"
    /\ roster[1] # roster[3]
    /\ table_validator = <<roster[1], roster[2]>>
    /\ val_keys = <<"M1", "M2">>

\* C7 as stated: every record whose master_key is absent (None or missing)
\* is in the table returned, however many there are.
C7_AbsentMasterKeyKept ==
    pc = "deduped" =>
        Cardinality(PositionsOf(table_validator, None))
            = Cardinality(PositionsOf(roster, None))

----------------------------------------------------------------------------
(* Properties of the validation stream handler, under Spec.                *)

\* The message at hand is one sort_new_messages routes to check_validations
IsValidation(msg) ==
    /\ "data" \in DOMAIN msg
    /\ "result" \notin DOMAIN msg["data"]
    /\ "type" \in DOMAIN msg["data"]
    /\ msg["data"]["type"] = "validationReceived"

\* The step hands a validation message to check_validations
DispatchesValidation == pc = "sort" /\ pc' # "stopped" /\ IsValidation(message)

ListsUnchanged ==
    UNCHANGED <<table_validator, processed_validations, val_keys>>

\* C1 as stated: once a validation with signature S has been applied, a
\* later validation message carrying S, at any later point, changes no
\* validator record and leaves processed_validations and val_keys unchanged.
C1_AppliedOnceForever ==
    [][(/\ DispatchesValidation
        /\ "signature" \in DOMAIN message["data"]
        /\ message["data"]["signature"] \in applied)
       => ListsUnchanged]_vars

\* C1, amended: a validation message whose signature is still in
\* processed_validations (applied and not pruned since) changes no validator
\* record and leaves processed_validations and val_keys unchanged.
C1_LoggedSignatureIsNoOp ==
    [][(/\ DispatchesValidation
        /\ "signature" \in DOMAIN message["data"]
        /\ In(message["data"]["signature"], processed_validations))
       => ListsUnchanged]_vars

\* C1's case: an in-scope validation message is about to be handled whose
\* signature was applied before and is still in the log.
C1_Witness ==
    /\ pc = "sort"
    /\ IsValidation(message)
    /\ "signature" \in DOMAIN message["data"]
    /\ message["data"]["signature"] \in applied
    /\ In(message["data"]["signature"], processed_validations)
    /\ InScope(val_keys, message["data"])
    /\ "server_url" \in DOMAIN message

\* C2 as stated: after every handled validation message the log is no longer
\* than PROCESSED_VAL_MAX, and after a step in which the log reached the
\* ceiling it is no longer than PROCESSED_VAL_MAX/2 + 1.
C2_BoundedGrowth ==
    [][DispatchesValidation =>
        /\ Len(processed_validations') <= settings.PROCESSED_VAL_MAX
        /\ (/\ processed_validations' # processed_validations
            /\ Len(processed_validations) + 1 >= settings.PROCESSED_VAL_MAX)
           => Len(processed_validations')
                 <= (settings.PROCESSED_VAL_MAX \div 2) + 1]_vars

\* The message holds the key `field` and its value is a tracked key
HoldsTrackedKey(keys, data, field) ==
    field \in DOMAIN data /\ In(data[field], keys)

\* C3 as stated: a validation message of which neither the master_key nor
\* the validation_public_key is a tracked key is discarded: no validator
\* record changes, no signature is appended, val_keys is unchanged.
C3_MembershipFilter ==
    [][(/\ DispatchesValidation
        /\ ~HoldsTrackedKey(val_keys, message["data"], "master_key")
        /\ ~HoldsTrackedKey(val_keys, message["data"],
                            "validation_public_key"))
       => ListsUnchanged]_vars

\* The match of C4, spelled out: the message's master_key is present and
\* equals the record's, or message.get('validation_public_key') equals the
\* record's validation_public_key
C4_Matches(data, validator) ==
    \/ /\ "master_key" \in DOMAIN data
       /\ data["master_key"] = validator["master_key"]
    \/ Get(data, "validation_public_key") = validator["validation_public_key"]

\* C4: when a validation message is applied (and the step's prune removes no
\* record), every matching record has exactly the fields the message holds
\* overwritten with the message's values and time_updated stamped with the
\* clock, keeps its other fields and gains none; every other record is
\* unchanged.
C4_MergeCorrectness ==
    [][(/\ DispatchesValidation
        /\ processed_validations' # processed_validations
        /\ Len(table_validator') = Len(table_validator))
       => \A i \in 1..Len(table_validator) :
            LET old == table_validator[i]
                new == table_validator'[i]
                data == message["data"]
            IN  IF C4_Matches(data, old)
                THEN /\ DOMAIN new = DOMAIN old
                     /\ new["time_updated"] = now
                     /\ \A key \in DOMAIN old \ {"time_updated"} :
                           new[key] = IF key \in DOMAIN data THEN data[key]
                                      ELSE old[key]
                ELSE new = old]_vars

\* C4's case: a message has been merged into one record (new ledger_index,
\* stamped, its key the message did not hold kept) next to a record that
\* did not match and is as it was in the roster.
C4_Witness ==
    /\ pc = "forks"
    /\ Len(table_validator) = 2
    /\ Len(processed_validations) = 1
    /\ \E i, j \in 1..2 :
          /\ i # j
          /\ table_validator[i]["ledger_index"] = "L101"
          /\ table_validator[i]["time_updated"] = now
          /\ table_validator[i]["master_key"] = "M1"
          /\ table_validator[i]["validation_public_key"] = "E1"
          /\ roster[i]["validation_public_key"] = None
          /\ table_validator[j] = roster[j]

\* Two records of the table hold the same master_key and the same
\* validation_public_key, both present
IdentityClash(table) ==
    \E i, j \in 1..Len(table) :
        /\ i < j
        /\ table[i]["master_key"] # None
        /\ table[i]["validation_public_key"] # None
        /\ table[i]["master_key"] = table[j]["master_key"]
        /\ table[i]["validation_public_key"] = table[j]["validation_public_key"]

\* Two records hold the same present master_key and the same
\* validation_public_key, present or not
SameIdentity(table) ==
    \E i, j \in 1..Len(table) :
        /\ i < j
        /\ table[i]["master_key"] # None
        /\ table[i]["master_key"] = table[j]["master_key"]
        /\ table[i]["validation_public_key"] = table[j]["validation_public_key"]

\* C5 as stated: if no two records of the roster share a present master_key
\* and a validation_public_key, no two records of table_validator ever do.
C5_IdentityInvariant == ~SameIdentity(roster) => ~IdentityClash(table_validator)

\* C8 as stated: a tracked key leaves val_keys only in a step in which the
\* duplicate-removal pass removes a validator record.
C8_KeysAppendOnly ==
    [][(\E key \in Elems(val_keys) : key # None /\ ~In(key, val_keys'))
       => Len(table_validator') < Len(table_validator)]_vars

\* A message with data, without a result, whose type is missing or is
\* neither ledgerClosed nor validationReceived
Unrecognized(msg) ==
    /\ "data" \in DOMAIN msg
    /\ "result" \notin DOMAIN msg["data"]
    /\ \/ "type" \notin DOMAIN msg["data"]
       \/ msg["data"]["type"] \notin {"ledgerClosed", "validationReceived"}

\* C9 as stated: sort_new_messages raises on every unrecognized message, and
\* the failure reaches the loop's except clauses.
C9_UnrecognizedRaises ==
    [][(pc = "sort" /\ pc' # "stopped" /\ Unrecognized(message))
       => (outcome' \in {"KeyError", "Exception"} /\ pc' = "get")]_vars

----------------------------------------------------------------------------
(* The loop without cancellation, scheduled fairly: the event loop runs the *)
(* processor whenever it can take a step.                                  *)

MaxBacklog == 2     \* messages waiting in the inbound queue at once

\* Messages of every kind the dispatcher tells apart, well-formed and not
LoopMessages ==
    OtherMessages
    \cup {msg \in ValidationMessages :
            /\ Get(msg["data"], "master_key") = "M1"
            /\ "validation_public_key" \notin DOMAIN msg["data"]}

InitLive ==
    /\ Init
    /\ settings.PROCESSED_VAL_MAX = MaxCeiling
    /\ settings.REMOVE_DUP_VALIDATORS
    /\ Len(roster) <= 1

PutBacklog == PutFrom(LoopMessages, MaxBacklog)

LoopStep ==
    \/ Startup
    \/ LoopGet
    \/ LoopSort
    \/ LoopForks
    \/ LoopConsole
    \/ LoopHeartbeat

NextLive ==
    \/ PutBacklog
    \/ Tick
    \/ LoopStep

SpecLive == InitLive /\ [][NextLive]_vars /\ WF_vars(LoopStep)

\* C10: without cancellation every message put on the inbound queue is
\* dequeued and dispatched, once and in FIFO order, whatever the handling of
\* earlier messages raised: the queue only grows at its tail and only
\* shrinks by the loop taking its head; every message put is waiting, at
\* hand or dispatched; and the k-th message put is eventually dispatched.
C10_NoMessageLost ==
    /\ [](n_put = n_dispatched + Len(message_queue)
                    + (IF pc = "sort" THEN 1 ELSE 0))
    /\ [][message_queue' # message_queue =>
            \/ /\ Len(message_queue') = Len(message_queue) + 1
               /\ SubSeq(message_queue', 1, Len(message_queue)) = message_queue
               /\ n_put' = n_put + 1
            \/ /\ pc = "get" /\ pc' = "sort"
               /\ message' = Head(message_queue)
               /\ message_queue' = Tail(message_queue)]_vars
    /\ [][n_dispatched' # n_dispatched =>
            /\ pc = "sort" /\ pc' \in {"forks", "get"}
            /\ n_dispatched' = n_dispatched + 1]_vars
    /\ \A k \in 1..MaxMessages : (n_put >= k) ~> (n_dispatched >= k)

\* C10's case: the handling of a message has raised, the loop has gone on
\* and has taken the next message from a queue where another one waits.
C10_Witness ==
    /\ pc = "sort"
    /\ outcome \in {"KeyError", "Exception"}
    /\ n_dispatched = 1
    /\ n_put = 3
    /\ Len(message_queue) = 1

----------------------------------------------------------------------------
(* Properties of the processor loop, under Spec.                           *)

\* The step is one of the loop's own (not the cancellation) that leaves the
\* statement at position p
LeavesStatement(p) == pc = p /\ pc' # p /\ pc' # "stopped"

\* C11 as stated: for every message dequeued, whatever the outcome of its
\* dispatch, the fork check, the console refresh and the heartbeat are each
\* evaluated once, in that order, before the next message is dequeued: the
\* loop goes from the dispatch to the fork check, from there to the console
\* refresh, from there to the heartbeat, and only from there back to get().
C11_TriggersEveryIteration ==
    [][/\ LeavesStatement("sort") => pc' = "forks"
       /\ LeavesStatement("forks") => pc' = "console"
       /\ LeavesStatement("console") => pc' = "heartbeat"
       /\ LeavesStatement("heartbeat") => pc' = "get"
       /\ LeavesStatement("get") => pc' = "sort"]_vars

----------------------------------------------------------------------------
(* The loop on a running clock, with every setting of the two flags the    *)
(* triggers read.                                                          *)

MaxClock == 4       \* seconds the clock advances after construction

ClockSettings ==
    [PROCESSED_VAL_MAX : {MaxCeiling}, REMOVE_DUP_VALIDATORS : {FALSE},
     ADMIN_HEARTBEAT : BOOLEAN, CONSOLE_OUT : BOOLEAN]

\* A validation of a tracked validator, well-formed or without server_url,
\* a server response and a message without type
ClockMessages ==
    {msg \in ValidationMessages :
        /\ Get(msg["data"], "master_key") = "M1"
        /\ "validation_public_key" \notin DOMAIN msg["data"]
        /\ Get(msg["data"], "signature") = "S1"}
    \cup {msg \in OtherMessages :
            /\ "data" \in DOMAIN msg
            /\ "type" \notin DOMAIN msg["data"]}

InitClock ==
    /\ settings \in ClockSettings
    /\ roster = <<ValidatorRecord("M1", "E1")>>
    /\ table_validator = <<>>
    /\ val_keys = <<>>
    /\ processed_validations = <<>>
    /\ message_queue = <<>>
    /\ notification_queue = <<>>
    /\ ll_modes = <<>>
    /\ time_last_output = 0
    /\ time_fork_check = 0
    /\ last_heartbeat = StartTime
    /\ message = NoMessage
    /\ pc = "start"
    /\ outcome = "none"
    /\ now = StartTime
    /\ n_put = 0
    /\ n_dispatched = 0
    /\ applied = {}

PutClock == PutFrom(ClockMessages, MaxQueue)

TickClock == TickUntil(StartTime + MaxClock)

NextClock ==
    \/ PutClock
    \/ TickClock
    \/ LoopStep

SpecClock == InitClock /\ [][NextClock]_vars

\* The step ends the handling of a message: the loop returns to get()
EndsIteration == pc \in {"sort", "forks", "console", "heartbeat"} /\ pc' = "get"

\* The tail of the outbound queue holds one notification per recipient
OnePerRecipient(before, after) ==
    /\ Len(after) = Len(before) + Len(ADMIN_NOTIFICATIONS)
    /\ SubSeq(after, 1, Len(before)) = before
    /\ \A i \in 1..Len(ADMIN_NOTIFICATIONS) :
          after[Len(before) + i]["server"] = ADMIN_NOTIFICATIONS[i]

\* C12 as stated: with ADMIN_HEARTBEAT disabled nothing is ever enqueued;
\* with it enabled, no processed message leaves a heartbeat due (it fires
\* whenever now - last_heartbeat >= HEARTBEAT_INTERVAL); notifications are
\* enqueued only by a heartbeat that is due, one per recipient, and
\* last_heartbeat is then set to now; two firings are at least
\* HEARTBEAT_INTERVAL apart.
C12_HeartbeatCadence ==
    /\ [](~settings.ADMIN_HEARTBEAT => notification_queue = <<>>)
    /\ [][EndsIteration =>
            ~(/\ settings.ADMIN_HEARTBEAT
              /\ now - last_heartbeat' >= HEARTBEAT_INTERVAL)]_vars
    /\ [][notification_queue' # notification_queue =>
            /\ pc = "heartbeat"
            /\ settings.ADMIN_HEARTBEAT
            /\ now - last_heartbeat >= HEARTBEAT_INTERVAL
            /\ OnePerRecipient(notification_queue, notification_queue')
            /\ last_heartbeat' = now]_vars
    /\ [][last_heartbeat' # last_heartbeat =>
            /\ notification_queue' # notification_queue
            /\ last_heartbeat' - last_heartbeat >= HEARTBEAT_INTERVAL]_vars


\* C13: a cancellation or interrupt delivered to the loop, while it waits in
\* get() or during an iteration, ends the loop for good: from then on the
\* loop is stopped, no message is dequeued or dispatched, and no validator
\* record, log entry, key or outbound notification is produced.
C13_OrderlyExit ==
    /\ [](outcome = "Cancelled" => pc = "stopped")
    /\ [][outcome' = "Cancelled" =>
            /\ pc' = "stopped"
            /\ n_dispatched' = n_dispatched
            /\ Len(message_queue') >= Len(message_queue)
            /\ UNCHANGED <<table_validator, processed_validations, val_keys,
                           notification_queue>>]_vars
    /\ [][pc = "stopped" => pc' = "stopped"]_vars

\* C13's case: the loop was cancelled after it had dispatched a message and
\* while another message was waiting in the inbound queue; that message is
\* still there.
C13_Witness ==
    /\ pc = "stopped"
    /\ outcome = "Cancelled"
    /\ n_dispatched >= 1
    /\ message_queue # <<>>
    /\ processed_validations # <<>>


\* Eligibility as C14 states it: the message's master_key is a member of
\* val_keys, or its validation_public_key is present and a member of val_keys
C14_Eligible(keys, data) ==
    \/ HoldsTrackedKey(keys, data, "master_key")
    \/ HoldsTrackedKey(keys, data, "validation_public_key")

\* C14 as stated: for every combination of the message's master_key (absent,
\* tracked, untracked) and validation_public_key (absent, tracked,
\* untracked), check_validations treats the message as eligible exactly when
\* C14_Eligible holds; a well-formed message with a signature not in the log
\* is applied (its signature appended) if and only if it is eligible.
C14_ScopeTruthTable ==
    [][(/\ DispatchesValidation
        /\ "server_url" \in DOMAIN message
        /\ "signature" \in DOMAIN message["data"]
        /\ ~In(message["data"]["signature"], processed_validations))
       => (processed_validations' # processed_validations
             <=> C14_Eligible(val_keys, message["data"]))]_vars


\* C15 as stated: each trigger, evaluated at time now, runs its action and
\* sets its last-fired timestamp to now if and only if now - last_fired >=
\* its interval (and its flag, if it has one, is set), the boundary now -
\* last_fired = interval included; otherwise the timestamp is unchanged.
C15_TriggerFiring ==
    [][/\ LeavesStatement("forks") =>
            IF now - time_fork_check >= FORK_CHECK_FREQ
            THEN time_fork_check' = now
            ELSE UNCHANGED time_fork_check
       /\ LeavesStatement("console") =>
            IF settings.CONSOLE_OUT
               /\ now - time_last_output >= CONSOLE_REFRESH_TIME
            THEN time_last_output' = now
            ELSE UNCHANGED time_last_output
       /\ LeavesStatement("heartbeat") =>
            IF settings.ADMIN_HEARTBEAT
               /\ now - last_heartbeat >= HEARTBEAT_INTERVAL
            THEN /\ last_heartbeat' = now
                 /\ notification_queue' # notification_queue
            ELSE UNCHANGED <<last_heartbeat, notification_queue>>]_vars

----------------------------------------------------------------------------
(* clean_validations on its own: any log the handler can hold, one call.   *)

MaxLog == 4         \* signatures in the log handed to clean_validations

LogSignatures == {SignatureNames[i] : i \in 1..MaxLog}

\* The logs process_validations hands over: never empty (a signature was
\* just appended) and without repetition
Logs ==
    {log \in Lists(LogSignatures, MaxLog) :
        Len(log) >= 1 /\ Cardinality(Elems(log)) = Len(log)}

InitPrune ==
    /\ settings \in Settings
    /\ roster \in Rosters
    /\ table_validator = roster
    /\ val_keys = generate_val_keys(roster)
    /\ processed_validations \in Logs
    /\ message_queue = <<>>
    /\ notification_queue = <<>>
    /\ ll_modes = <<>>
    /\ time_last_output = 0
    /\ time_fork_check = 0
    /\ last_heartbeat = StartTime
    /\ message = NoMessage
    /\ pc = "prune"
    /\ outcome = "none"
    /\ now = StartTime
    /\ n_put = 0
    /\ n_dispatched = 0
    /\ applied = {}

\* val_keys, table_validator, processed_validations =
\*     await clean_validations(settings, val_keys, table_validator,
\*                             processed_validations)
PrunePass ==
    /\ pc = "prune"
    /\ LET cleaned == clean_validations(settings, val_keys, table_validator,
                                        processed_validations)
       IN  /\ val_keys' = cleaned[1]
           /\ table_validator' = cleaned[2]
           /\ processed_validations' = cleaned[3]
    /\ pc' = "pruned"
    /\ UNCHANGED <<settings, roster, message_queue, notification_queue,
                   ll_modes, time_last_output, time_fork_check,
                   last_heartbeat, message, outcome, now, n_put,
                   n_dispatched, applied>>

NextPrune == PrunePass

SpecPrune == InitPrune /\ [][NextPrune]_vars

\* C16: when the log is at least PROCESSED_VAL_MAX long, clean_validations
\* removes exactly the floor(PROCESSED_VAL_MAX/2) oldest entries and keeps
\* the others in their order (the result is that suffix of the log); when
\* it is shorter, the log, the table and the key list are unchanged.
C16_PrunePolicy ==
    [][(pc = "prune" /\ pc' = "pruned") =>
         IF Len(processed_validations) >= settings.PROCESSED_VAL_MAX
         THEN /\ Len(processed_validations')
                   = Len(processed_validations)
                       - (settings.PROCESSED_VAL_MAX \div 2)
              /\ \A i \in 1..Len(processed_validations') :
                    processed_validations'[i]
                      = processed_validations[
                            i + (settings.PROCESSED_VAL_MAX \div 2)]
         ELSE UNCHANGED <<processed_validations, table_validator,
                          val_keys>>]_vars

\* C16's case: a log of four signatures has been pruned at a ceiling of two;
\* its oldest entry is gone and the other three remain.
C16_Witness ==
    /\ pc = "pruned"
    /\ settings.PROCESSED_VAL_MAX = 2
    /\ processed_validations = <<"S2", "S3", "S4">>

----------------------------------------------------------------------------
(* More properties of the validation stream handler, under Spec.           *)

\* C17: whenever the handling of a dequeued validation message raises an
\* exception that the loop catches, every validator record, the log and the
\* key list are exactly what they were before: nothing is partially applied.
C17_FailingMessageRejected ==
    [][(DispatchesValidation /\ outcome' \in {"KeyError", "Exception"})
       => ListsUnchanged]_vars

\* C17's case: an eligible validation message with a new signature and
\* without server_url is about to be handled, and a record matches it.
C17_Witness ==
    /\ pc = "sort"
    /\ IsValidation(message)
    /\ InScope(val_keys, message["data"])
    /\ "server_url" \notin DOMAIN message
    /\ "signature" \in DOMAIN message["data"]
    /\ ~In(message["data"]["signature"], processed_validations)
    /\ \E i \in 1..Len(table_validator) :
          /\ ValidatorMatches(message["data"], table_validator[i])
          /\ table_validator[i]["ledger_index"] # message["data"]["ledger_index"]


\* Every present master_key and validation_public_key of the table's records
\* is in the key list
KeysCoverTable(keys, table) ==
    \A i \in 1..Len(table) :
        /\ Truthy(table[i]["master_key"]) => In(table[i]["master_key"], keys)
        /\ Truthy(table[i]["validation_public_key"])
              => In(table[i]["validation_public_key"], keys)

\* C18 as stated: in every state after startup, whatever validation messages
\* were processed and whether or not the duplicate-removal pass ran, every
\* present master_key and validation_public_key of every record of
\* table_validator is a member of val_keys.
C18_KeySetCoversRegistry ==
    pc # "start" => KeysCoverTable(val_keys, table_validator)


\* C19: right after process_validations has handled a new eligible message
\* with signature S, S is in processed_validations whatever the ceiling and
\* the log were (the prune of the same step never removes it), so handing
\* check_validations the identical message again changes no validator
\* record, no log entry and no key.
C19_AppendedSurvivesPrune ==
    [][(/\ DispatchesValidation
        /\ InScope(val_keys, message["data"])
        /\ "server_url" \in DOMAIN message
        /\ "signature" \in DOMAIN message["data"]
        /\ ~In(message["data"]["signature"], processed_validations))
       => LET again == check_validations(settings, val_keys',
                                         table_validator',
                                         processed_validations', message, now)
          IN  /\ In(message["data"]["signature"], processed_validations')
              /\ again.exc = "ok"
              /\ again.val_keys = val_keys'
              /\ again.table_validator = table_validator'
              /\ again.processed_validations = processed_validations'
              /\ again.appended = <<>>]_vars

\* C19's case: the step that appended S2 has pruned the log at a ceiling of
\* two: S1 is gone, S2 is the log's only entry.
C19_Witness ==
    /\ pc = "forks"
    /\ settings.PROCESSED_VAL_MAX = 2
    /\ applied = {"S1", "S2"}
    /\ processed_validations = <<"S2">>
    /\ n_dispatched = 2

\* C20: the entries of processed_validations are pairwise distinct in every
\* state, whatever messages check_validations has handled and whatever
\* prunes ran in between.
C20_LogHasNoDuplicates ==
    \A i, j \in 1..Len(processed_validations) :
        i # j => processed_validations[i] # processed_validations[j]

\* C20's case: S1 was applied, pruned from the log when S2 was applied, and
\* applied again by a third message; the log holds it once.
C20_Witness ==
    /\ pc = "forks"
    /\ settings.PROCESSED_VAL_MAX = 2
    /\ applied = {"S1", "S2"}
    /\ processed_validations = <<"S1">>
    /\ n_dispatched = 3

====
